---- MODULE Spec2Model ----
(***************************************************************************)
(* OrbitSchemaFromOpenApi (src/index.js): generate() obtains a token,      *)
(* reads the OpenAPI document and hands it to convertToOrbit(), which      *)
(* filters the declared resource types by the whitelist, rewrites each     *)
(* type name into an output key and serializes the type's attributes and   *)
(* relationships with serialize().                                         *)
(*                                                                         *)
(* Representation.  A JavaScript string that the code takes apart (a       *)
(* resource type name) is a sequence of one-character strings; every other *)
(* string is a TLA+ string.  An optional member `x.y` is a record          *)
(* [present |-> BOOLEAN, ...]: `present` is what the code's truthiness     *)
(* test `if (x.y)` reads.  An array is a sequence; an object used as a map *)
(* is a function, except `definitions`, whose key order the reduce()       *)
(* follows and which is therefore a sequence of [type, schema] entries     *)
(* with distinct types.  A call that can throw yields a record with a      *)
(* `threw` flag and the error's name.                                      *)
(***************************************************************************)
EXTENDS Naturals, Integers, Sequences, FiniteSets, TLC

----------------------------------------------------------------------------
(* Bounds of the checked inputs.                                           *)

\* Resource types per document.
MaxTypes == 2
\* Attributes plus relationships per document, all resource types together.
MaxProps == 2
\* Values of one target-type enumeration.
MaxEnum == 2

----------------------------------------------------------------------------
(* Input universes.                                                        *)

\* Resource type names 'a', 'n:p', 'n--p' and 'n:p:q': without a separator,
\* with one, the key of the one with one, and with two.
TypeNames ==
    {<<"a">>, <<"n", ":", "p">>, <<"n", "-", "-", "p">>,
     <<"n", ":", "p", ":", "q">>}

\* Type names of the documents checked for their attributes and relationships.
ResourceTypes == {<<"a">>, <<"n", ":", "p">>}

AttrNames == {"title", "body"}
AttrTypes == {"string", "integer"}
RelNames == {"author"}
TargetTypes == {"user", "comment"}
DataTypes == {"array", "object"}

\* The JavaScript value undefined.
Undefined == "undefined"

\* Sequences over S of length at most n without repetition.
RECURSIVE DistinctSeqs(_, _)
DistinctSeqs(S, n) ==
    IF n = 0 THEN {<<>>}
    ELSE LET shorter == DistinctSeqs(S, n - 1)
             longest == {s \in shorter : Len(s) = n - 1}
         IN  shorter \cup
             UNION {{Append(s, x) : x \in S \ {s[i] : i \in 1..Len(s)}} :
                    s \in longest}

\* The elements of S in some order.
RECURSIVE SetToSeq(_)
SetToSeq(S) ==
    IF S = {} THEN <<>>
    ELSE LET x == CHOOSE y \in S : TRUE IN <<x>> \o SetToSeq(S \ {x})

\* One array per subset of S.
Arrays(S) == {SetToSeq(T) : T \in SUBSET S}

\* An optional array: absent, or one of `arrays`.
OptArrays(arrays) ==
    {[present |-> FALSE, items |-> <<>>]} \cup
    {[present |-> TRUE, items |-> a] : a \in arrays}

\* `...type.enum`: absent (the lookup chain breaks), or a list of target types.
Enums ==
    {[present |-> FALSE, values |-> <<>>]} \cup
    {[present |-> TRUE, values |-> v] : v \in DistinctSeqs(TargetTypes, MaxEnum)}

NoEnum == [present |-> FALSE, values |-> <<>>]

\* A relationship's schema: data.type, data.items.properties.type.enum and
\* data.properties.type.enum.  A collection carries the enumeration on its
\* items, a single reference on itself.
RelSchemas ==
    {[dataType |-> t, itemsTypeEnum |-> IF t = "array" THEN e ELSE NoEnum,
      typeEnum |-> IF t = "array" THEN NoEnum ELSE e] :
        t \in DataTypes, e \in Enums}

AttrSchemas == {[type |-> t] : t \in AttrTypes}

\* `schema.properties.attributes` / `.relationships`: absent, or a map.
OptMaps(names, schemas) ==
    {[present |-> FALSE, properties |-> <<>>]} \cup
    {[present |-> TRUE, properties |-> f] :
        f \in UNION {[S -> schemas] : S \in SUBSET names}}

PropCount(schema) ==
    Cardinality(DOMAIN schema.attributes.properties)
    + Cardinality(DOMAIN schema.relationships.properties)

AllSchemas ==
    {s \in [attributes : OptMaps(AttrNames, AttrSchemas),
            relationships : OptMaps(RelNames, RelSchemas)] :
        PropCount(s) <= MaxProps}

SchemasWithin(q) == {s \in AllSchemas : PropCount(s) <= q}

RECURSIVE PropsOf(_)
PropsOf(entries) ==
    IF entries = <<>> THEN 0
    ELSE PropCount(Head(entries).schema) + PropsOf(Tail(entries))

TypesOf(entries) == {entries[i].type : i \in 1..Len(entries)}

\* `definitions` objects: at most n resource types named in T, at most p
\* attributes and relationships in all.
RECURSIVE Definitions(_, _, _)
Definitions(T, n, p) ==
    IF n = 0 THEN {<<>>}
    ELSE LET shorter == Definitions(T, n - 1, p)
             longest == {d \in shorter : Len(d) = n - 1}
         IN  shorter \cup
             UNION {{Append(d, [type |-> t, schema |-> s]) :
                        t \in T \ TypesOf(d),
                        s \in SchemasWithin(p - PropsOf(d))} :
                    d \in longest}

\* Response bodies: each of `parsed` as the parsed document, each of `texts`
\* as JSON text, a text that is not JSON, and a document without
\* `definitions`.
Bodies(parsed, texts) ==
    {[isString |-> FALSE, wellFormed |-> TRUE,
      definitions |-> [present |-> TRUE, entries |-> d]] : d \in parsed}
    \cup
    {[isString |-> TRUE, wellFormed |-> TRUE,
      definitions |-> [present |-> TRUE, entries |-> d]] : d \in texts}
    \cup
    {[isString |-> TRUE, wellFormed |-> FALSE,
      definitions |-> [present |-> FALSE, entries |-> <<>>]],
     [isString |-> FALSE, wellFormed |-> TRUE,
      definitions |-> [present |-> FALSE, entries |-> <<>>]]}

SchemaBodies ==
    Bodies(Definitions(ResourceTypes, MaxTypes, MaxProps),
           Definitions(ResourceTypes, 1, 1))
KeyBodies ==
    Bodies(Definitions(TypeNames, MaxTypes, 0),
           Definitions(TypeNames, 1, 0))

NoWhitelist == [present |-> FALSE, resources |-> [present |-> FALSE, items |-> <<>>]]
NoBlacklist ==
    [present |-> FALSE,
     attributes |-> [present |-> FALSE, items |-> <<>>],
     relationships |-> [present |-> FALSE, items |-> <<>>]]

Whitelists ==
    {NoWhitelist} \cup
    {[present |-> TRUE, resources |-> r] : r \in OptArrays(Arrays(TypeNames))}

Blacklists ==
    {NoBlacklist} \cup
    {[present |-> TRUE, attributes |-> a, relationships |-> r] :
        a \in OptArrays(Arrays(AttrNames)),
        r \in OptArrays(Arrays(RelNames))}

\* The constructor's options, as far as convertToOrbit and serialize read them.
SchemaOptions ==
    [whitelist : {NoWhitelist}, blacklist : Blacklists]
KeyOptions ==
    [whitelist : Whitelists, blacklist : {NoBlacklist}]

----------------------------------------------------------------------------
(* convertToOrbit and serialize.                                           *)

\* Array.prototype.indexOf: the 0-based index of the first x, or -1.
IndexOf(arr, x) ==
    IF \E i \in 1..Len(arr) : arr[i] = x
    THEN (CHOOSE i \in 1..Len(arr) :
            arr[i] = x /\ \A j \in 1..(i - 1) : arr[j] # x) - 1
    ELSE -1

\* String.prototype.replace(':', '--') with a string pattern: the first
\* occurrence of ':' becomes '--', the rest of the string is kept.
RewriteType(type) ==
    IF \E i \in 1..Len(type) : type[i] = ":"
    THEN LET i == CHOOSE k \in 1..Len(type) :
                    type[k] = ":" /\ \A j \in 1..(k - 1) : type[j] # ":"
         IN  SubSeq(type, 1, i - 1) \o <<"-", "-">> \o SubSeq(type, i + 1, Len(type))
    ELSE type

\* NotInWhitelist with the key looked up in the whitelist instead of the
\* type name.
NotInWhitelistByKey(options, type) ==
    /\ options.whitelist.present
    /\ options.whitelist.resources.present
    /\ IndexOf(options.whitelist.resources.items, RewriteType(type)) < 0

\* The guard of the "Abort if type is not in the whitelist" branch.
NotInWhitelist(options, type) ==
    /\ options.whitelist.present
    /\ options.whitelist.resources.present
    /\ IndexOf(options.whitelist.resources.items, type) < 0

\* The guards of the two blacklist tests of serialize.
AttributeBlacklisted(options, prop) ==
    /\ options.blacklist.present
    /\ options.blacklist.attributes.present
    /\ IndexOf(options.blacklist.attributes.items, prop) >= 0

\* RelationshipBlacklisted reading the attribute blacklist.
RelationshipBlacklistedAsAttribute(options, prop) ==
    /\ options.blacklist.present
    /\ options.blacklist.attributes.present
    /\ IndexOf(options.blacklist.attributes.items, prop) >= 0

RelationshipBlacklisted(options, prop) ==
    /\ options.blacklist.present
    /\ options.blacklist.relationships.present
    /\ IndexOf(options.blacklist.relationships.items, prop) >= 0

\* `<...>.type.enum[0]`: a TypeError when the chain down to `enum` breaks,
\* undefined when the enumeration holds no value, else its first value.
FirstOfEnum(enum) ==
    [threw |-> ~enum.present,
     value |-> IF enum.present /\ Len(enum.values) > 0
               THEN enum.values[1] ELSE Undefined]

\* FirstOfEnum's value taken from the end of the enumeration.
LastOfEnum(enum) ==
    [threw |-> ~enum.present,
     value |-> IF enum.present /\ Len(enum.values) > 0
               THEN enum.values[Len(enum.values)] ELSE Undefined]

\* SerializeRelationship keeping the last declared target type.
SerializeRelationshipLastTarget(propSchema) ==
    IF propSchema.dataType = "array"
    THEN LET last == LastOfEnum(propSchema.itemsTypeEnum)
         IN  [threw |-> last.threw,
              entry |-> [type |-> "hasMany", model |-> last.value]]
    ELSE LET last == LastOfEnum(propSchema.typeEnum)
         IN  [threw |-> last.threw,
              entry |-> [type |-> "hasOne", model |-> last.value]]

\* The body of the relationships forEach for one kept relationship.
SerializeRelationship(propSchema) ==
    IF propSchema.dataType = "array"
    THEN LET first == FirstOfEnum(propSchema.itemsTypeEnum)
         IN  [threw |-> first.threw,
              entry |-> [type |-> "hasMany", model |-> first.value]]
    ELSE LET first == FirstOfEnum(propSchema.typeEnum)
         IN  [threw |-> first.threw,
              entry |-> [type |-> "hasOne", model |-> first.value]]

\* SerializeAttributes setting `output.attributes` only with the first
\* attribute it keeps.
SerializeAttributesWhenKept(schema, options) ==
    LET input == schema.attributes.properties
        kept == {prop \in DOMAIN input : ~AttributeBlacklisted(options, prop)}
    IN  [present |-> schema.attributes.present /\ kept # {},
         properties |-> [prop \in kept |-> [type |-> input[prop].type]]]

\* `output.attributes`, set when `schema.properties.attributes` is there.
SerializeAttributes(schema, options) ==
    LET input == schema.attributes.properties
        kept == {prop \in DOMAIN input : ~AttributeBlacklisted(options, prop)}
    IN  [present |-> schema.attributes.present,
         properties |-> [prop \in kept |-> [type |-> input[prop].type]]]

\* `output.relationships`, set when `schema.properties.relationships` is there.
SerializeRelationships(schema, options) ==
    LET input == schema.relationships.properties
        kept == {prop \in DOMAIN input : ~RelationshipBlacklisted(options, prop)}
    IN  [present |-> schema.relationships.present,
         properties |-> [prop \in kept |-> SerializeRelationship(input[prop]).entry]]

\* serialize(schema, options): its output, or the TypeError of the first
\* kept relationship whose target-type lookup breaks.
serialize(schema, options) ==
    LET input == schema.relationships.properties
        kept == {prop \in DOMAIN input : ~RelationshipBlacklisted(options, prop)}
        threw == \E prop \in kept : SerializeRelationship(input[prop]).threw
    IN  [threw |-> threw,
         error |-> IF threw THEN "TypeError" ELSE "",
         output |-> IF threw
                    THEN [attributes |-> [present |-> FALSE, properties |-> <<>>],
                          relationships |-> [present |-> FALSE, properties |-> <<>>]]
                    ELSE [attributes |-> SerializeAttributes(schema, options),
                          relationships |-> SerializeRelationships(schema, options)]]

\* `schema[resource] = value` on a plain object.
Assign(schema, resource, value) ==
    [k \in DOMAIN schema \cup {resource} |->
        IF k = resource THEN value ELSE schema[k]]

\* types.reduce(...) from entry i on, `acc` the schema built so far.
RECURSIVE Reduce(_, _, _, _)
Reduce(entities, i, acc, options) ==
    IF i > Len(entities) THEN [threw |-> FALSE, error |-> "", models |-> acc]
    ELSE LET type == entities[i].type
         IN  IF NotInWhitelist(options, type)
             THEN Reduce(entities, i + 1, acc, options)
             ELSE LET resource == RewriteType(type)
                      serialized == serialize(entities[i].schema, options)
                  IN  IF serialized.threw
                      THEN [threw |-> TRUE, error |-> serialized.error,
                            models |-> <<>>]
                      ELSE Reduce(entities, i + 1,
                                  Assign(acc, resource, serialized.output),
                                  options)

\* convertToOrbit(body, options): { models } or the error thrown.
convertToOrbit(body, options) ==
    IF body.isString /\ ~body.wellFormed
    THEN [threw |-> TRUE, error |-> "SyntaxError", models |-> <<>>]
    ELSE IF ~body.definitions.present
    THEN [threw |-> TRUE, error |-> "TypeError", models |-> <<>>]
    ELSE Reduce(body.definitions.entries, 1, <<>>, options)

----------------------------------------------------------------------------
(* generate().                                                             *)

VARIABLES
    options,    \* this.options
    token,      \* oAuth.getToken(): "idle", "pending", "ok", "rejected", "threw"
    read,       \* axios.get(): "none", "pending", "ok", "failed"
    reads,      \* number of axios.get() calls issued
    conv,       \* the call of convertToOrbit: [called, body, result]
    promise,    \* the promise generate() returned: [state, value]
    log         \* what console.log printed

vars == <<options, token, read, reads, conv, promise, log>>

NoResult == [threw |-> FALSE, error |-> "", models |-> <<>>]
NoBody ==
    [isString |-> FALSE, wellFormed |-> TRUE,
     definitions |-> [present |-> FALSE, entries |-> <<>>]]
NoCall == [called |-> FALSE, body |-> NoBody, result |-> NoResult]

InitWith(opts) ==
    /\ options \in opts
    /\ token = "idle"
    /\ read = "none"
    /\ reads = 0
    /\ conv = NoCall
    /\ promise = [state |-> "none", value |-> NoResult]
    /\ log = <<>>

Init == InitWith(SchemaOptions)

\* Generate issuing axios.get() beside getToken() instead of after it.
GenerateWithoutWaiting ==
    /\ promise.state = "none"
    /\ token' = "pending"
    /\ read' = "pending"
    /\ reads' = reads + 1
    /\ promise' = [promise EXCEPT !.state = "pending"]
    /\ UNCHANGED <<options, conv, log>>

\* generate(): the executor runs, getToken() returns its promise and the
\* continuation is registered on it.
Generate ==
    /\ promise.state = "none"
    /\ token' = "pending"
    /\ promise' = [promise EXCEPT !.state = "pending"]
    /\ UNCHANGED <<options, read, reads, conv, log>>

\* generate() when the call getToken() itself throws: an exception in the
\* executor of `new Promise` rejects the promise.
GenerateThrows ==
    /\ promise.state = "none"
    /\ token' = "threw"
    /\ promise' = [promise EXCEPT !.state = "rejected"]
    /\ UNCHANGED <<options, read, reads, conv, log>>

\* getToken() resolves: the continuation issues the one axios.get().
TokenResolves ==
    /\ token = "pending"
    /\ token' = "ok"
    /\ read' = "pending"
    /\ reads' = reads + 1
    /\ UNCHANGED <<options, conv, promise, log>>

\* getToken() rejects: the chain has no rejection handler and the executor's
\* `reject` is never called.
TokenRejects ==
    /\ token = "pending"
    /\ token' = "rejected"
    /\ UNCHANGED <<options, read, reads, conv, promise, log>>

\* axios.get() resolves with one of `bodies` as response.data: the handler
\* calls convertToOrbit and resolves with its result; when convertToOrbit
\* throws, the chained .catch() logs the error.
ReadSucceeds(bodies) ==
    /\ read = "pending"
    /\ read' = "ok"
    /\ \E body \in bodies :
        LET result == convertToOrbit(body, options)
        IN  /\ conv' = [called |-> TRUE, body |-> body, result |-> result]
            /\ IF result.threw
               THEN /\ log' = Append(log, result.error)
                    /\ UNCHANGED promise
               ELSE /\ promise' = [state |-> "resolved", value |-> result]
                    /\ UNCHANGED log
    /\ UNCHANGED <<options, token, reads>>

\* ReadFails with a .catch() that also rejects the promise.
ReadFailsAndRejects ==
    /\ read = "pending"
    /\ read' = "failed"
    /\ log' = Append(log, "Error")
    /\ promise' = [promise EXCEPT !.state = "rejected"]
    /\ UNCHANGED <<options, token, reads, conv>>

\* axios.get() rejects: the .catch() logs the error.
ReadFails ==
    /\ read = "pending"
    /\ read' = "failed"
    /\ log' = Append(log, "Error")
    /\ UNCHANGED <<options, token, reads, conv, promise>>

Next ==
    \/ Generate
    \/ GenerateThrows
    \/ TokenResolves
    \/ TokenRejects
    \/ ReadSucceeds(SchemaBodies)
    \/ ReadFails

Spec == Init /\ [][Next]_vars

\* The same program on documents and whitelists that vary the type names.
InitKeys == InitWith(KeyOptions)

NextKeys ==
    \/ Generate
    \/ GenerateThrows
    \/ TokenResolves
    \/ TokenRejects
    \/ ReadSucceeds(KeyBodies)
    \/ ReadFails

SpecKeys == InitKeys /\ [][NextKeys]_vars
----------------------------------------------------------------------------
(* What the claims read.                                                   *)

\* convertToOrbit was called and returned { models }.
Returned == conv.called /\ ~conv.result.threw

entities == conv.body.definitions.entries
models == conv.result.models

Elements(arr) == {arr[i] : i \in 1..Len(arr)}

WhitelistConfigured ==
    options.whitelist.present /\ options.whitelist.resources.present
Listed == Elements(options.whitelist.resources.items)
Declared == TypesOf(entities)

AttributeBlacklist ==
    IF options.blacklist.present /\ options.blacklist.attributes.present
    THEN Elements(options.blacklist.attributes.items) ELSE {}
RelationshipBlacklist ==
    IF options.blacklist.present /\ options.blacklist.relationships.present
    THEN Elements(options.blacklist.relationships.items) ELSE {}

\* The separator rewritten everywhere: every ':' becomes '--'.
RECURSIVE RewriteEvery(_)
RewriteEvery(type) ==
    IF type = <<>> THEN <<>>
    ELSE (IF Head(type) = ":" THEN <<"-", "-">> ELSE <<Head(type)>>)
         \o RewriteEvery(Tail(type))

\* The enumeration serialize reads for a relationship.
TargetEnum(propSchema) ==
    IF propSchema.dataType = "array"
    THEN propSchema.itemsTypeEnum ELSE propSchema.typeEnum

----------------------------------------------------------------------------
C2_EverySeparatorRewritten ==
    Returned =>
        \A i \in 1..Len(entities) :
            ~NotInWhitelist(options, entities[i].type) =>
                RewriteEvery(entities[i].type) \in DOMAIN models

(* C3: no blacklisted attribute or relationship name is a key of any       *)
(* output resource's map, and every input name that is not blacklisted is  *)
(* a key of the output map of its resource.                                *)
C3_BlacklistGlobal ==
    Returned =>
        /\ \A k \in DOMAIN models :
            /\ DOMAIN models[k].attributes.properties \cap AttributeBlacklist = {}
            /\ DOMAIN models[k].relationships.properties
                   \cap RelationshipBlacklist = {}
        /\ \A i \in 1..Len(entities) :
            LET out == models[RewriteType(entities[i].type)]
                in == entities[i].schema
            IN  /\ DOMAIN in.attributes.properties \ AttributeBlacklist
                       \subseteq DOMAIN out.attributes.properties
                /\ DOMAIN in.relationships.properties \ RelationshipBlacklist
                       \subseteq DOMAIN out.relationships.properties

\* Two resource types that declare the same blacklisted name: both output
\* maps are there without it.
C3_Witness ==
    /\ Returned
    /\ Len(entities) = 2
    /\ \/ \E b \in AttributeBlacklist :
            \A i \in 1..2 :
                /\ b \in DOMAIN entities[i].schema.attributes.properties
                /\ models[RewriteType(entities[i].type)].attributes.present
                /\ b \notin DOMAIN models[RewriteType(entities[i].type)]
                                      .attributes.properties
       \/ \E b \in RelationshipBlacklist :
            \A i \in 1..2 :
                /\ b \in DOMAIN entities[i].schema.relationships.properties
                /\ models[RewriteType(entities[i].type)].relationships.present
                /\ b \notin DOMAIN models[RewriteType(entities[i].type)]
                                      .relationships.properties

(* C4: a kept relationship whose data is an array is emitted as hasMany    *)
(* with the first value of the items' type enumeration as model, any other *)
(* as hasOne with the first value of the data's own type enumeration.      *)
C4_Cardinality ==
    Returned =>
        \A i \in 1..Len(entities) :
            LET out == models[RewriteType(entities[i].type)].relationships.properties
                in == entities[i].schema.relationships.properties
            IN  \A prop \in DOMAIN in \ RelationshipBlacklist :
                    /\ prop \in DOMAIN out
                    /\ out[prop].type =
                           IF in[prop].dataType = "array" THEN "hasMany" ELSE "hasOne"
                    /\ Len(TargetEnum(in[prop]).values) > 0 =>
                           out[prop].model = TargetEnum(in[prop]).values[1]

\* A hasMany and a hasOne relationship in one output, one of them with
\* several target types declared.
C4_Witness ==
    /\ Returned
    /\ \E i, j \in 1..Len(entities) :
        LET ini == entities[i].schema.relationships.properties
            inj == entities[j].schema.relationships.properties
        IN  \E p \in DOMAIN ini \ RelationshipBlacklist,
               q \in DOMAIN inj \ RelationshipBlacklist :
                /\ ini[p].dataType = "array"
                /\ inj[q].dataType = "object"
                /\ Len(ini[p].itemsTypeEnum.values) = 2
                /\ Len(inj[q].typeEnum.values) = 1
                /\ models[RewriteType(entities[i].type)]
                       .relationships.properties[p].type = "hasMany"
                /\ models[RewriteType(entities[j].type)]
                       .relationships.properties[q].type = "hasOne"

(* C5: the document read is issued only once the token was obtained, and   *)
(* at most once; convertToOrbit is called only once the read succeeded;    *)
(* the promise is resolved only once convertToOrbit returned, with what it *)
(* returned.                                                               *)
C5_Ordering ==
    /\ read # "none" => token = "ok"
    /\ reads = (IF read = "none" THEN 0 ELSE 1)
    /\ conv.called => read = "ok"
    /\ promise.state = "resolved" =>
           /\ Returned
           /\ promise.value = conv.result
           /\ promise.value = convertToOrbit(conv.body, options)

C5_Witness ==
    /\ promise.state = "resolved"
    /\ token = "ok"
    /\ read = "ok"
    /\ DOMAIN promise.value.models # {}

(* C6: when getToken fails, the promise generate() returned is rejected    *)
(* and no document read is issued.                                         *)
C6_TokenFailureRejects ==
    token \in {"rejected", "threw"} =>
        /\ promise.state = "rejected"
        /\ reads = 0

(* C7: when the document read fails, the error is logged, the promise      *)
(* generate() returned stays pending, convertToOrbit is not called and no  *)
(* second read is issued.                                                  *)
C7_ReadFailurePending ==
    read = "failed" =>
        /\ log = <<"Error">>
        /\ promise.state = "pending"
        /\ ~conv.called
        /\ reads = 1
        /\ ~ENABLED TokenResolves
        /\ ~ENABLED ReadFails

C7_Witness ==
    /\ read = "failed"
    /\ token = "ok"
    /\ Len(log) = 1

(* C8: when the read succeeds and convertToOrbit throws, the promise       *)
(* generate() returned is rejected.                                        *)
C8_TransformFailureRejects ==
    (conv.called /\ conv.result.threw) => promise.state = "rejected"

(* C9: a kept relationship of an emitted type whose target-type            *)
(* enumeration is empty or missing makes convertToOrbit throw.             *)
C9_EmptyEnumThrows ==
    conv.called =>
        \A i \in 1..Len(entities) :
            ~NotInWhitelist(options, entities[i].type) =>
                \A prop \in DOMAIN entities[i].schema.relationships.properties
                            \ RelationshipBlacklist :
                    LET enum == TargetEnum(
                            entities[i].schema.relationships.properties[prop])
                    IN  (~enum.present \/ enum.values = <<>>) => conv.result.threw

(* C10: an output resource has an attributes map exactly when its input    *)
(* definition has one, and a relationships map exactly when its input      *)
(* definition has one, also when every name of the input map is            *)
(* blacklisted.                                                            *)
C10_SubMapsPresent ==
    Returned =>
        \A i \in 1..Len(entities) :
            LET out == models[RewriteType(entities[i].type)]
                in == entities[i].schema
            IN  /\ out.attributes.present = in.attributes.present
                /\ out.relationships.present = in.relationships.present

\* An input map whose names are all blacklisted, beside an absent one.
C10_Witness ==
    /\ Returned
    /\ \E i \in 1..Len(entities) :
        LET out == models[RewriteType(entities[i].type)]
            in == entities[i].schema
        IN  /\ in.attributes.present
            /\ DOMAIN in.attributes.properties # {}
            /\ DOMAIN in.attributes.properties \subseteq AttributeBlacklist
            /\ out.attributes.present
            /\ DOMAIN out.attributes.properties = {}
            /\ ~in.relationships.present
            /\ ~out.relationships.present
====
